---------------------------- MODULE Spec2Model ----------------------------
(***************************************************************************)
(* A model of teto.py: the avatar's sprite state machine and its timers,   *)
(* the text bubble's typewriter reveal and auto-hide, and the keyword      *)
(* responder with its conversation state.                                  *)
(*                                                                         *)
(* Time is in milliseconds.  Every Qt timer is a count-down: a timer whose *)
(* count-down is 0 is due, and time does not pass a due timer (Advance).   *)
(* A QTimer.singleShot is an entry of a sequence of count-downs, one per   *)
(* pending call, in the order the calls were made.                         *)
(***************************************************************************)
EXTENDS Integers, Sequences, FiniteSets, TLC

(***************************************************************************)
(* Program constants.                                                      *)
(***************************************************************************)
BlinkInterval == 5000
BlinkMs == 300
TalkMs == 700
RevealInterval == 30
HideDelay == 6000
SummaryInterval == 3600000
QuitDelay == 2000
CpuSampleMs == 500
SecretMin == 1
SecretMax == 10
ClipboardLimit == 300
TopFiles == 3

(***************************************************************************)
(* Bounds of the model.                                                    *)
(***************************************************************************)
\* pending single-shot callbacks of one kind that a call may add to
MaxShots == 2
\* calls of show_animated_text in a run
MaxShows == 2
\* elapsed time, in ms, up to which a run of the whole application is followed
Horizon == 9000

VARIABLES
    \* AnimatedAvatar
    current,        \* the sprite drawn: "idle", "mouth_open" or "blink"
    idle_shots,     \* count-downs of the pending singleShot(.., return_to_idle)
    blink_timer,    \* count-down of the recurring blink_timer
    \* TextBubble
    full_text, displayed_text, char_index, visible,
    timer,          \* the reveal QTimer: [active, left, interval]
    hide_shots,     \* count-downs of the pending singleShot(6000, hide)
    \* DesktopAssistant
    input_line,     \* the text of the QLineEdit
    game_active, secret_number, rps_active, user_profile,
    summary_timer,  \* count-down of the recurring summary_timer
    quit_shots,     \* count-downs of the pending singleShot(2000, quit)
    running,        \* the event loop runs: FALSE once QApplication.quit has run
    \* __main__
    missing,        \* the image paths for which os.path.exists is False
    checked,        \* the image paths the loop of lines 472-475 has passed
    stdout,         \* the lines printed
    exit_status,    \* <<>> while the process runs, else <<the status it exited with>>
    window,         \* the assistant was constructed and shown
    \* the last call of respond(): its argument, the branch that answered,
    \* what it returned, and whether it returned at all
    text, rule, response, outcome,
    \* history, read by the properties only
    now,            \* ms elapsed since construction
    last_call,      \* the most recent of talk() / blink_once(): [kind, age, in_talk]
    since_talk,     \* <<>> before any talk(), else <<ms since the last talk()>>
    shown,          \* the show_animated_text calls made, and for the last one
                    \* the ms since its reveal completed, the hide callbacks
                    \* that ran since and the time-outs of the reveal timer
                    \* since: [calls, done, hides, ticks]
    since_exit      \* <<>> before an exit word, else <<ms since respond saw it>>

avatarVars == <<current, idle_shots, blink_timer>>
bubbleVars == <<full_text, displayed_text, char_index, visible, timer, hide_shots>>
convVars == <<game_active, secret_number, rps_active, user_profile>>
appVars == <<input_line, summary_timer, quit_shots, running>>
callVars == <<text, rule, response, outcome>>
mainVars == <<missing, checked, stdout, exit_status, window>>
histVars == <<now, last_call, since_talk, shown, since_exit>>
vars == <<avatarVars, bubbleVars, convVars, appVars, mainVars, callVars, histVars>>

None == <<>>
Some(v) == <<v>>
Min(a, b) == IF a <= b THEN a ELSE b
Max(a, b) == IF a >= b THEN a ELSE b


(***************************************************************************)
(* Python's str operations, on TLA+ strings.                               *)
(***************************************************************************)
Whitespace == {" ", "\t", "\n", "\r", "\f"}
UpperCase == "ABCDEFGHIJKLMNOPQRSTUVWXYZ"
LowerCase == "abcdefghijklmnopqrstuvwxyz"
Digits == "0123456789"

\* s[i:] and s[:n], counted from 0
From(s, i) == SubSeq(s, i + 1, Len(s))
Prefix(s, n) == SubSeq(s, 1, Min(n, Len(s)))
\* the position of character c in alphabet, 0 when it is not there
PosIn(c, alphabet) ==
    IF \E i \in 1..Len(alphabet) : SubSeq(alphabet, i, i) = c
    THEN CHOOSE i \in 1..Len(alphabet) : SubSeq(alphabet, i, i) = c
    ELSE 0

\* kw in s
Contains(s, kw) ==
    \E i \in 1..(Len(s) - Len(kw) + 1) : SubSeq(s, i, i + Len(kw) - 1) = kw
\* s.startswith(p)
StartsWith(s, p) == Len(s) >= Len(p) /\ SubSeq(s, 1, Len(p)) = p

LowerChar(c) ==
    LET i == PosIn(c, UpperCase) IN IF i = 0 THEN c ELSE SubSeq(LowerCase, i, i)
UpperChar(c) ==
    LET i == PosIn(c, LowerCase) IN IF i = 0 THEN c ELSE SubSeq(UpperCase, i, i)
\* s.lower()
RECURSIVE Lower(_)
Lower(s) == IF s = "" THEN "" ELSE LowerChar(Head(s)) \o Lower(Tail(s))
\* s.capitalize()
Capitalize(s) == IF s = "" THEN "" ELSE UpperChar(Head(s)) \o Lower(Tail(s))

\* s.strip()
RECURSIVE LStrip(_)
LStrip(s) == IF s # "" /\ Head(s) \in Whitespace THEN LStrip(Tail(s)) ELSE s
RECURSIVE RStrip(_)
RStrip(s) ==
    IF s # "" /\ SubSeq(s, Len(s), Len(s)) \in Whitespace
    THEN RStrip(SubSeq(s, 1, Len(s) - 1)) ELSE s
Strip(s) == RStrip(LStrip(s))

\* s.replace(old, new), old not empty
RECURSIVE Replace(_, _, _)
Replace(s, old, new) ==
    IF Len(s) < Len(old) THEN s
    ELSE IF StartsWith(s, old) THEN new \o Replace(From(s, Len(old)), old, new)
    ELSE Head(s) \o Replace(Tail(s), old, new)

\* s.split(): the words between runs of whitespace
RECURSIVE FirstWord(_)
FirstWord(s) ==
    IF s = "" \/ Head(s) \in Whitespace THEN "" ELSE Head(s) \o FirstWord(Tail(s))
RECURSIVE Split(_)
Split(s) ==
    LET t == LStrip(s) IN
    IF t = "" THEN <<>>
    ELSE <<FirstWord(t)>> \o Split(From(t, Len(FirstWord(t))))

\* s.split(sep): the pieces between the occurrences of sep, left to right
RECURSIVE UpTo(_, _)
UpTo(s, sep) ==
    IF s = "" \/ StartsWith(s, sep) THEN "" ELSE Head(s) \o UpTo(Tail(s), sep)
RECURSIVE SplitOn(_, _)
SplitOn(s, sep) ==
    LET piece == UpTo(s, sep) IN
    IF Len(piece) = Len(s) THEN <<s>>
    ELSE <<piece>> \o SplitOn(From(s, Len(piece) + Len(sep)), sep)
\* s.split(sep, 1)
SplitOnce(s, sep) ==
    LET piece == UpTo(s, sep) IN
    IF Len(piece) = Len(s) THEN <<s>>
    ELSE <<piece, From(s, Len(piece) + Len(sep))>>
\* s.splitlines(), for "\n" line ends
Splitlines(s) ==
    LET parts == SplitOn(s, "\n") IN
    IF parts[Len(parts)] = "" THEN SubSeq(parts, 1, Len(parts) - 1) ELSE parts

\* int(tok) of a token without whitespace: None when it raises ValueError,
\* else Some(value).  An optional sign, then digits, single underscores
\* allowed between digits.
RECURSIVE DigitsValue(_, _)
DigitsValue(s, acc) ==
    IF s = "" THEN acc
    ELSE IF Head(s) = "_" THEN DigitsValue(Tail(s), acc)
    ELSE DigitsValue(Tail(s), acc * 10 + (PosIn(Head(s), Digits) - 1))
IsIntBody(s) ==
    /\ s # ""
    /\ \A i \in 1..Len(s) :
          \/ PosIn(SubSeq(s, i, i), Digits) # 0
          \/ /\ SubSeq(s, i, i) = "_"
             /\ 1 < i /\ i < Len(s)
             /\ SubSeq(s, i - 1, i - 1) # "_"
int(tok) ==
    LET signed == tok # "" /\ Head(tok) \in {"+", "-"}
        body == IF signed THEN Tail(tok) ELSE tok
    IN IF ~IsIntBody(body) THEN None
       ELSE Some(IF signed /\ Head(tok) = "-"
                 THEN 0 - DigitsValue(body, 0) ELSE DigitsValue(body, 0))

\* two decimal digits, as strftime's %H, %M and %d
Pad2(n) == IF n < 10 THEN "0" \o ToString(n) ELSE ToString(n)
\* now.strftime("It's %H:%M on %A, %B %d, %Y.")
Strftime(c) ==
    "It's " \o Pad2(c.hour) \o ":" \o Pad2(c.minute) \o " on " \o c.weekday
    \o ", " \o c.month \o " " \o Pad2(c.day) \o ", " \o ToString(c.year) \o "."

(***************************************************************************)
(* The state as one record, so that the methods compose: a method is a     *)
(* function from the state before the call to the state after it, and an   *)
(* action sets the variables to the state its handler leaves.              *)
(***************************************************************************)
State ==
    [current |-> current, idle_shots |-> idle_shots, blink_timer |-> blink_timer,
     full_text |-> full_text, displayed_text |-> displayed_text,
     char_index |-> char_index, visible |-> visible, timer |-> timer,
     hide_shots |-> hide_shots, input_line |-> input_line,
     game_active |-> game_active, secret_number |-> secret_number,
     rps_active |-> rps_active, user_profile |-> user_profile,
     summary_timer |-> summary_timer, quit_shots |-> quit_shots,
     running |-> running, missing |-> missing, checked |-> checked,
     stdout |-> stdout, exit_status |-> exit_status, window |-> window,
     text |-> text, rule |-> rule, response |-> response,
     outcome |-> outcome, now |-> now, last_call |-> last_call,
     since_talk |-> since_talk, shown |-> shown, since_exit |-> since_exit]

Set(s) ==
    /\ current' = s.current
    /\ idle_shots' = s.idle_shots
    /\ blink_timer' = s.blink_timer
    /\ full_text' = s.full_text
    /\ displayed_text' = s.displayed_text
    /\ char_index' = s.char_index
    /\ visible' = s.visible
    /\ timer' = s.timer
    /\ hide_shots' = s.hide_shots
    /\ input_line' = s.input_line
    /\ game_active' = s.game_active
    /\ secret_number' = s.secret_number
    /\ rps_active' = s.rps_active
    /\ user_profile' = s.user_profile
    /\ summary_timer' = s.summary_timer
    /\ quit_shots' = s.quit_shots
    /\ running' = s.running
    /\ missing' = s.missing
    /\ checked' = s.checked
    /\ stdout' = s.stdout
    /\ exit_status' = s.exit_status
    /\ window' = s.window
    /\ text' = s.text
    /\ rule' = s.rule
    /\ response' = s.response
    /\ outcome' = s.outcome
    /\ now' = s.now
    /\ last_call' = s.last_call
    /\ since_talk' = s.since_talk
    /\ shown' = s.shown
    /\ since_exit' = s.since_exit

(***************************************************************************)
(* Single-shot timers and the passage of time.                             *)
(***************************************************************************)
\* QTimer.singleShot(ms, callback): one more pending callback
singleShot(shots, ms) == Append(shots, ms)
\* the pending callbacks that are due
Due(shots) == {i \in 1..Len(shots) : shots[i] = 0}
\* a callback has run: it is no longer pending
Fired(shots, i) == SubSeq(shots, 1, i - 1) \o SubSeq(shots, i + 1, Len(shots))
\* d ms pass for every pending callback (a due one stays due until it runs)
Elapse(shots, d) == [i \in 1..Len(shots) |-> Max(0, shots[i] - d)]
ElapseTimer(t, d) == IF t.active THEN [t EXCEPT !.left = Max(0, t.left - d)] ELSE t
\* an age of the history grows with the time, up to the first value past
\* which no property tells two ages apart
ElapseAge(a, d, cap) == IF a = None THEN None ELSE Some(Min(a[1] + d, cap))

\* the count-downs of every timer that is running
CountDowns ==
    {idle_shots[i] : i \in 1..Len(idle_shots)}
    \cup {hide_shots[i] : i \in 1..Len(hide_shots)}
    \cup {quit_shots[i] : i \in 1..Len(quit_shots)}
    \cup {blink_timer, summary_timer}
    \cup (IF timer.active THEN {timer.left} ELSE {})
\* the time until the next timer is due
MinLeft == CHOOSE m \in CountDowns : \A c \in CountDowns : m <= c

\* d ms pass on every clock and no callback runs
PassTime(s, d) ==
    [s EXCEPT !.idle_shots = Elapse(@, d),
              !.hide_shots = Elapse(@, d),
              !.quit_shots = Elapse(@, d),
              !.blink_timer = Max(0, @ - d),
              !.summary_timer = Max(0, @ - d),
              !.timer = ElapseTimer(@, d),
              !.now = @ + d,
              !.last_call = IF @.kind = "none" THEN @
                            ELSE [@ EXCEPT !.age = Min(@ + d, TalkMs + 1)],
              !.since_talk = ElapseAge(@, d, TalkMs),
              !.since_exit = ElapseAge(@, d, QuitDelay + 1),
              !.shown = [@ EXCEPT !.done = ElapseAge(@, d, HideDelay)]]

\* The event loop waits: time passes, by at most step ms and never past a due
\* timer.
Advance(step) ==
    LET d == Min(step, MinLeft) IN
    /\ running
    /\ d > 0
    /\ now + d <= Horizon
    /\ Set(PassTime(State, d))

(***************************************************************************)
(* AnimatedAvatar                                                          *)
(***************************************************************************)
\* a slip: the blink sprite is set and no return to idle is scheduled
blink_once_no_revert(s) ==
    [s EXCEPT !.current = "blink",
              !.last_call = [kind |-> "blink_once", age |-> 0,
                             in_talk |-> s.since_talk # None
                                         /\ s.since_talk[1] < TalkMs]]
\* blink_once(), lines 38-42
blink_once(s) ==
    [s EXCEPT !.current = "blink",
              !.idle_shots = singleShot(@, BlinkMs),
              !.last_call = [kind |-> "blink_once", age |-> 0,
                             in_talk |-> s.since_talk # None
                                         /\ s.since_talk[1] < TalkMs]]

\* talk(), lines 48-52
talk(s) ==
    [s EXCEPT !.current = "mouth_open",
              !.idle_shots = singleShot(@, TalkMs),
              !.last_call = [kind |-> "talk", age |-> 0, in_talk |-> FALSE],
              !.since_talk = Some(0)]

\* return_to_idle(), lines 44-46, run by the i-th pending single shot
return_to_idle(s, i) ==
    [s EXCEPT !.current = "idle", !.idle_shots = Fired(@, i)]

\* a caller runs avatar.blink_once()
BlinkOnce ==
    /\ running
    /\ Len(idle_shots) < MaxShots
    /\ Set(blink_once(State))

\* a caller runs avatar.talk()
Talk ==
    /\ running
    /\ Len(idle_shots) < MaxShots
    /\ Set(talk(State))

\* blink_timer times out: blink_once() runs and the timer starts over
BlinkTimeout ==
    /\ running
    /\ blink_timer = 0
    /\ Set([blink_once(State) EXCEPT !.blink_timer = BlinkInterval])

\* a pending singleShot(.., return_to_idle) is due and runs
ReturnToIdle ==
    /\ running
    /\ \E i \in Due(idle_shots) : Set(return_to_idle(State, i))

(***************************************************************************)
(* TextBubble                                                              *)
(***************************************************************************)
\* the i-th character of s, counted from 0 as Python does
CharAt(s, i) == SubSeq(s, i + 1, i + 1)

\* a slip: the index of the message shown before is kept
show_animated_text_keeps_index(s, message, interval) ==
    [s EXCEPT !.full_text = message,
              !.displayed_text = "",
              !.visible = TRUE,
              !.timer = [active |-> TRUE, left |-> interval, interval |-> interval],
              !.shown = [calls |-> @.calls + 1, hides |-> 0, ticks |-> 0,
                         done |-> IF Len(message) = 0 THEN Some(0) ELSE None]]
\* show_animated_text(message, interval), lines 76-82: the reveal timer is
\* started over; a pending hide callback stays pending
show_animated_text(s, message, interval) ==
    [s EXCEPT !.full_text = message,
              !.displayed_text = "",
              !.char_index = 0,
              !.visible = TRUE,
              !.timer = [active |-> TRUE, left |-> interval, interval |-> interval],
              !.shown = [calls |-> @.calls + 1, hides |-> 0, ticks |-> 0,
                         done |-> IF Len(message) = 0 THEN Some(0) ELSE None]]

\* a slip: the reveal timer is stopped and no hide is scheduled
next_character_no_hide(s) ==
    IF s.char_index < Len(s.full_text)
    THEN [s EXCEPT !.displayed_text = @ \o CharAt(s.full_text, s.char_index),
                   !.char_index = @ + 1,
                   !.timer = [@ EXCEPT !.left = s.timer.interval],
                   !.shown = [@ EXCEPT !.done = IF s.char_index + 1 = Len(s.full_text)
                                                THEN Some(0) ELSE None,
                                       !.ticks = @ + 1]]
    ELSE [s EXCEPT !.timer = [@ EXCEPT !.active = FALSE],
                   !.shown = [@ EXCEPT !.ticks = @ + 1]]
\* _next_character(), lines 84-93
next_character(s) ==
    IF s.char_index < Len(s.full_text)
    THEN [s EXCEPT !.displayed_text = @ \o CharAt(s.full_text, s.char_index),
                   !.char_index = @ + 1,
                   !.timer = [@ EXCEPT !.left = s.timer.interval],
                   !.shown = [@ EXCEPT !.done = IF s.char_index + 1 = Len(s.full_text)
                                                THEN Some(0) ELSE None,
                                       !.ticks = @ + 1]]
    ELSE [s EXCEPT !.timer = [@ EXCEPT !.active = FALSE],
                   !.hide_shots = singleShot(@, HideDelay),
                   !.shown = [@ EXCEPT !.ticks = @ + 1]]

\* lambda: self.setVisible(False), line 93, run by the i-th pending single shot
hide(s, i) ==
    [s EXCEPT !.visible = FALSE,
              !.hide_shots = Fired(@, i),
              !.shown = [@ EXCEPT !.hides = @ + 1]]

\* a caller runs bubble.show_animated_text(message, interval)
ShowAnimatedText(message, interval) ==
    /\ running
    /\ shown.calls < MaxShows
    /\ Set(show_animated_text(State, message, interval))

\* the reveal timer times out
NextCharacter ==
    /\ running
    /\ timer.active
    /\ timer.left = 0
    /\ Set(next_character(State))

\* a pending hide callback is due and runs
Hide ==
    /\ running
    /\ \E i \in Due(hide_shots) : Set(hide(State, i))

(***************************************************************************)
(* What the OS collaborators can answer.  A collaborator call either       *)
(* returns one of the values below or raises.                              *)
(***************************************************************************)
\* datetime.datetime.now()
Clocks ==
    {[hour |-> 9, minute |-> 5, weekday |-> "Monday", month |-> "March",
      day |-> 3, year |-> 2025],
     [hour |-> 23, minute |-> 40, weekday |-> "Friday", month |-> "October",
      day |-> 31, year |-> 2025]}
\* psutil.sensors_battery(): raises, returns None, or a reading
Batteries ==
    {[kind |-> "raise", percent |-> "", power_plugged |-> FALSE],
     [kind |-> "none", percent |-> "", power_plugged |-> FALSE],
     [kind |-> "some", percent |-> "87", power_plugged |-> TRUE],
     [kind |-> "some", percent |-> "15", power_plugged |-> FALSE]}
\* psutil.cpu_percent(interval=0.5) and psutil.virtual_memory().percent
Samples ==
    {[kind |-> "raise", cpu |-> "", mem |-> ""],
     [kind |-> "some", cpu |-> "12.5", mem |-> "48.0"]}
\* subprocess.Popen / os.startfile: None on success, else the error's text
Launches == {None, Some("[WinError 2] The system cannot find the file specified")}
\* QApplication.clipboard().text()
RECURSIVE Repeat(_, _)
Repeat(c, n) ==
    IF n = 0 THEN ""
    ELSE LET half == Repeat(c, n \div 2) IN
         IF n % 2 = 0 THEN half \o half ELSE half \o half \o c
LongText == Repeat("x", ClipboardLimit + 1)
Clipboards ==
    {[kind |-> "raise", text |-> ""],
     [kind |-> "some", text |-> ""],
     [kind |-> "some", text |-> "copied"],
     [kind |-> "some", text |-> "Try calibrating your battery or replace if it's old."]}
\* ~/Documents: absent, or the files os.walk finds with what getmtime gives
\* (None when it raises), the time already as strftime('%Y-%m-%d %H:%M') prints it
Documents ==
    {[exists |-> FALSE, files |-> <<>>],
     [exists |-> TRUE, files |-> <<>>],
     [exists |-> TRUE, files |->
        <<[path |-> "a.txt", mtime |-> Some(10), stamp |-> "2025-01-01 08:00"],
          [path |-> "sub/b.txt", mtime |-> Some(40), stamp |-> "2025-03-01 09:30"],
          [path |-> "c.doc", mtime |-> None, stamp |-> ""],
          [path |-> "d.pdf", mtime |-> Some(30), stamp |-> "2025-02-01 10:00"],
          [path |-> "e.png", mtime |-> Some(20), stamp |-> "2025-01-15 11:00"]>>]}
\* netsh wlan show interfaces: None when check_output raises, else its output
Netsh ==
    {None,
     Some("    SSID : home\n    BSSID : 00:11\n    State : connected\n    Signal : 80%\n"),
     Some("    State : disconnected\n"),
     Some("    SSID\n")}
\* toggle_mute: whether the audio endpoint calls succeed
Mutes == BOOLEAN

fun_facts ==
    <<"Honey never spoils.",
      "Octopuses have three hearts.",
      "Bananas are berries, but strawberries aren't.">>

\* fix_tips, in the order the dict was written (the order items() yields)
fix_tips ==
    <<[key |-> "slow", tip |-> "Try restarting your PC and closing unused apps."],
      [key |-> "internet", tip |-> "Check your router or try resetting your network adapter."],
      [key |-> "battery", tip |-> "Try calibrating your battery or replace if it's old."],
      [key |-> "crash", tip |-> "Update your drivers and check for overheating."],
      [key |-> "disk", tip |-> "You can free up space by running 'cleanmgr' (Disk Cleanup) or deleting temp files using Win+R -> %temp%."]>>

app_paths == {"chrome", "edge"}
rps_moves == {"rock", "paper", "scissors"}
exit_words == {"exit", "quit", "close", "bye"}
Goodbye == "Goodbye! Shutting down..."
Fallback == "Sorry, I don't understand. Try asking something else."

(***************************************************************************)
(* DesktopAssistant.respond(text).  The operator gives every way the call  *)
(* can end: the branch that answered (the if statements of respond, in     *)
(* order, numbered from 1), the string returned (None when an exception    *)
(* left respond), the conversation state it leaves, whether the exit       *)
(* branch ran, and the ms the call blocked the event loop.                 *)
(***************************************************************************)
Conv ==
    [game_active |-> game_active, secret_number |-> secret_number,
     rps_active |-> rps_active, user_profile |-> user_profile]

Return(k, s) ==
    [rule |-> k, ret |-> Some(s), conv |-> Conv, exit |-> FALSE, blocked |-> 0]
Raise(k) ==
    [rule |-> k, ret |-> None, conv |-> Conv, exit |-> FALSE, blocked |-> 0]
Blocked(r, ms) == [r EXCEPT !.blocked = ms]
With(r, c) == [r EXCEPT !.conv = c]

\* the conditions of the if statements, in the order of the source
is_time(t) == \E kw \in {"time", "date"} : Contains(t, kw)
\* a slip: the text is compared with the keyword instead of searched for it
is_battery_exact(t) == t = "battery"
is_battery(t) == Contains(t, "battery")
is_health(t) == Contains(t, "health") \/ Contains(t, "cpu") \/ Contains(t, "memory")
is_fix(t) ==
    \/ Contains(t, "fix") \/ Contains(t, "slow") \/ Contains(t, "problem")
    \/ Contains(t, "crash") \/ Contains(t, "disk")
is_cleanup(t) ==
    Contains(t, "run cleanup") \/ Contains(t, "open cleanup") \/ Contains(t, "clean")
is_fact(t) == Contains(t, "fun fact") \/ Contains(t, "fact")
is_summary(t) ==
    \E kw \in {"summary", "status report", "how am i doing"} : Contains(t, kw)
is_open(t) == StartsWith(t, "open ")
is_clipboard(t) == Contains(t, "clipboard") \/ Contains(t, "read clipboard")
is_exit(t) == t \in exit_words
is_play_guess(t) == Contains(t, "play guess") \/ Contains(t, "guess number")
is_guess(t) == game_active /\ StartsWith(t, "guess")
is_play_rps(t) == Contains(t, "rock paper scissors") \/ Contains(t, "play rps")
is_move(t) == rps_active /\ t \in rps_moves
is_name(t) == StartsWith(t, "my name is ")
is_color(t) == StartsWith(t, "my favorite color is ")
is_birthday(t) == Contains(t, "my birthday is")
is_recall(t) == Contains(t, "what do you know about me")
is_recent(t) == Contains(t, "recent files") \/ Contains(t, "show recent")
is_wifi(t) ==
    Contains(t, "wifi info") \/ Contains(t, "wifi status") \/ Contains(t, "network info")
is_hello(t) == t \in {"hi", "hello"}
is_mute(t) == t \in {"mute audio", "mute sound"}
is_unmute(t) == t \in {"unmute audio", "unmute sound"}

\* lines 215-220
battery_answer ==
    {IF batt.kind = "raise" THEN Raise(2)
     ELSE IF batt.kind = "some"
     THEN Return(2, "Battery is at " \o batt.percent \o "% and "
                    \o (IF batt.power_plugged THEN "charging" ELSE "on battery") \o ".")
     ELSE Return(2, "Battery info not available.") : batt \in Batteries}

\* lines 221-224: the sampling blocks for half a second
health_answer ==
    {IF u.kind = "raise" THEN Raise(3)
     ELSE Blocked(Return(3, "CPU usage is " \o u.cpu \o "%. Memory usage is "
                            \o u.mem \o "%."), CpuSampleMs) : u \in Samples}

\* lines 225-229: the first key of fix_tips that the text contains
fix_answer(t) ==
    LET hits == {i \in 1..Len(fix_tips) : Contains(t, fix_tips[i].key)} IN
    {IF hits = {}
     THEN Return(4, "Try restarting your computer or checking for updates.")
     ELSE Return(4, fix_tips[CHOOSE i \in hits : \A j \in hits : i <= j].tip)}

\* lines 232-237
cleanup_answer ==
    {IF e = None THEN Return(5, "Launching Disk Cleanup...")
     ELSE Return(5, "Failed to launch Disk Cleanup: " \o e[1]) : e \in Launches}

\* lines 239-241
fact_answer == {Return(6, fun_facts[i]) : i \in 1..Len(fun_facts)}

\* lines 243-259, and the text hourly_summary composes (lines 172-187)
summary_text(c, batt, u, i) ==
    Strftime(c) \o "\n"
    \o (IF batt.kind = "some"
        THEN "Battery at " \o batt.percent \o "%, "
             \o (IF batt.power_plugged THEN "charging" ELSE "on battery") \o "."
        ELSE "Battery info not available.") \o "\n"
    \o "CPU: " \o u.cpu \o "%, Memory: " \o u.mem \o "%." \o "\n"
    \o "Fun fact: " \o fun_facts[i]
summary_answer ==
    {IF batt.kind = "raise" \/ u.kind = "raise" THEN Raise(7)
     ELSE Blocked(Return(7, summary_text(c, batt, u, i)), CpuSampleMs) :
        c \in Clocks, batt \in Batteries, u \in Samples, i \in 1..Len(fun_facts)}

\* launch_app(app_name), lines 433-446
launch_app(app_name) ==
    LET name == Lower(app_name) IN
    IF name \in app_paths
    THEN {IF e = None THEN "Launching " \o Capitalize(name) \o "..."
          ELSE "Couldn't launch " \o name \o ": " \o e[1] : e \in Launches}
    ELSE {"I don't know how to open " \o name \o "."}
\* lines 261-263
open_answer(t) == {Return(8, r) : r \in launch_app(Strip(Replace(t, "open ", "")))}

\* read_clipboard(), lines 425-430
read_clipboard ==
    {IF c.kind = "raise" THEN None
     ELSE IF c.text # "" THEN Some("Clipboard says:\n" \o Prefix(c.text, ClipboardLimit))
     ELSE Some("Clipboard is empty or not text.") :
        c \in Clipboards \cup {[kind |-> "some", text |-> LongText]}}
\* lines 265-266
clipboard_answer ==
    {IF r = None THEN Raise(9) ELSE Return(9, r[1]) : r \in read_clipboard}

\* lines 268-272: the talk, the goodbye bubble and the quit timer are the
\* caller's to apply (exit |-> TRUE)
exit_answer == {[Return(10, "") EXCEPT !.exit = TRUE]}

\* a slip: randint(0, 10) for randint(1, 10)
play_guess_answer_from_zero ==
    {With(Return(11, "I'm thinking of a number between 1 and 10. Try to guess it!"),
          [Conv EXCEPT !.game_active = TRUE, !.secret_number = Some(n)]) :
        n \in (SecretMin - 1)..SecretMax}
\* lines 277-280
play_guess_answer ==
    {With(Return(11, "I'm thinking of a number between 1 and 10. Try to guess it!"),
          [Conv EXCEPT !.game_active = TRUE, !.secret_number = Some(n)]) :
        n \in SecretMin..SecretMax}

\* a slip: <= for <, so that the secret itself is answered as too low
guess_answer_le(t) ==
    LET words == Split(t)
        guess == IF Len(words) < 2 THEN None ELSE int(words[2])
    IN {IF guess = None THEN Return(12, "Please type like: guess 5")
        ELSE IF guess[1] <= secret_number[1] THEN Return(12, "Too low! Try again.")
        ELSE IF guess[1] > secret_number[1] THEN Return(12, "Too high! Try again.")
        ELSE With(Return(12, "Correct! You guessed it!"),
                  [Conv EXCEPT !.game_active = FALSE])}
\* a slip: the except branch gives the game up
guess_answer_gives_up(t) ==
    LET words == Split(t)
        guess == IF Len(words) < 2 THEN None ELSE int(words[2])
    IN {IF guess = None
        THEN With(Return(12, "Please type like: guess 5"),
                  [Conv EXCEPT !.game_active = FALSE])
        ELSE IF guess[1] < secret_number[1] THEN Return(12, "Too low! Try again.")
        ELSE IF guess[1] > secret_number[1] THEN Return(12, "Too high! Try again.")
        ELSE With(Return(12, "Correct! You guessed it!"),
                  [Conv EXCEPT !.game_active = FALSE])}
\* lines 283-294: any exception of the try block gives the usage hint
guess_answer(t) ==
    LET words == Split(t)
        guess == IF Len(words) < 2 THEN None ELSE int(words[2])
    IN {IF guess = None THEN Return(12, "Please type like: guess 5")
        ELSE IF guess[1] < secret_number[1] THEN Return(12, "Too low! Try again.")
        ELSE IF guess[1] > secret_number[1] THEN Return(12, "Too high! Try again.")
        ELSE With(Return(12, "Correct! You guessed it!"),
                  [Conv EXCEPT !.game_active = FALSE])}

\* lines 297-299
play_rps_answer ==
    {With(Return(13, "Let's play Rock, Paper, Scissors! Type your move: rock, paper, or scissors."),
          [Conv EXCEPT !.rps_active = TRUE])}

\* a slip: the paper and rock of the second pair swapped
rps_result_swapped(user, bot) ==
    IF user = bot THEN "It's a tie!"
    ELSE IF \/ (user = "rock" /\ bot = "scissors")
            \/ (user = "rock" /\ bot = "paper")
            \/ (user = "scissors" /\ bot = "paper")
    THEN "You win!"
    ELSE "I win!"
\* lines 302-317
rps_result(user, bot) ==
    IF user = bot THEN "It's a tie!"
    ELSE IF \/ (user = "rock" /\ bot = "scissors")
            \/ (user = "paper" /\ bot = "rock")
            \/ (user = "scissors" /\ bot = "paper")
    THEN "You win!"
    ELSE "I win!"
move_answer(t) ==
    {With(Return(14, "You chose " \o t \o ", I chose " \o bot \o ". " \o rps_result(t, bot)),
          [Conv EXCEPT !.rps_active = FALSE]) : bot \in rps_moves}

\* lines 320-323
name_answer(t) ==
    LET name == Capitalize(Strip(Replace(t, "my name is ", ""))) IN
    {With(Return(15, "Nice to meet you, " \o name \o "!"),
          [Conv EXCEPT !.user_profile.name = Some(name)])}
\* lines 326-329
color_answer(t) ==
    LET color == Strip(Replace(t, "my favorite color is ", "")) IN
    {With(Return(16, "I'll remember that your favorite color is " \o color \o "."),
          [Conv EXCEPT !.user_profile.favorite_color = Some(color)])}
\* lines 332-335
birthday_answer(t) ==
    LET parts == SplitOn(t, "my birthday is")
        date == Strip(parts[Len(parts)])
    IN {With(Return(17, "Got it! Your birthday is on " \o date \o "."),
             [Conv EXCEPT !.user_profile.birthday = Some(date)])}
\* lines 338-344: v or 'unknown'
or_unknown(v) == IF v = None \/ v = Some("") THEN "unknown" ELSE v[1]
recall_answer ==
    {Return(18, "Your name is " \o or_unknown(user_profile.name) \o ", "
                \o "your favorite color is " \o or_unknown(user_profile.favorite_color) \o ", "
                \o "and your birthday is " \o or_unknown(user_profile.birthday) \o ".")}

\* lines 346-375
basename(path) == LET parts == SplitOn(path, "/") IN parts[Len(parts)]
\* sort(key=mtime, reverse=True): descending, equal keys in their first order
RECURSIVE InsertDesc(_, _)
InsertDesc(f, sorted) ==
    IF sorted = <<>> \/ f.mtime[1] > Head(sorted).mtime[1] THEN <<f>> \o sorted
    ELSE <<Head(sorted)>> \o InsertDesc(f, Tail(sorted))
RECURSIVE SortDesc(_)
SortDesc(files) ==
    IF files = <<>> THEN <<>>
    ELSE InsertDesc(files[Len(files)], SortDesc(SubSeq(files, 1, Len(files) - 1)))
RECURSIVE JoinLines(_)
JoinLines(lines) ==
    IF lines = <<>> THEN ""
    ELSE IF Len(lines) = 1 THEN lines[1]
    ELSE lines[1] \o "\n" \o JoinLines(Tail(lines))
recent_answer ==
    {IF ~d.exists THEN Return(19, "I couldn't find the Documents folder.")
     ELSE LET recent_files == SelectSeq(d.files, LAMBDA f : f.mtime # None)
              sorted == SortDesc(recent_files)
              top_files == SubSeq(sorted, 1, Min(TopFiles, Len(sorted)))
          IN IF top_files = <<>> THEN Return(19, "No recent files found.")
             ELSE Return(19, "Here are your 3 most recent files in Documents:\n"
                    \o JoinLines([i \in 1..Len(top_files) |->
                         basename(top_files[i].path) \o " (" \o top_files[i].stamp \o ")"]))
     : d \in Documents}

\* lines 377-401: the fields of the lines; a field line without ":" raises
\* IndexError, which the try block turns into the apology
RECURSIVE WifiScan(_, _)
WifiScan(lines, acc) ==
    IF lines = <<>> \/ acc.failed THEN acc
    ELSE LET line == Strip(Head(lines))
             field == IF StartsWith(line, "SSID") THEN "ssid"
                      ELSE IF StartsWith(line, "Signal") THEN "signal"
                      ELSE IF StartsWith(line, "State") THEN "state"
                      ELSE "none"
             parts == SplitOnce(line, ":")
         IN IF field = "none" THEN WifiScan(Tail(lines), acc)
            ELSE IF Len(parts) < 2 THEN [acc EXCEPT !.failed = TRUE]
            ELSE WifiScan(Tail(lines), [acc EXCEPT ![field] = Strip(parts[2])])
wifi_answer ==
    {IF out = None THEN Return(20, "Sorry, I couldn't get the Wi-Fi information.")
     ELSE LET w == WifiScan(Splitlines(out[1]),
                            [ssid |-> "", signal |-> "", state |-> "", failed |-> FALSE])
          IN IF w.failed THEN Return(20, "Sorry, I couldn't get the Wi-Fi information.")
             ELSE IF w.ssid # "" /\ w.signal # "" /\ w.state # ""
             THEN Return(20, "Wi-Fi '" \o w.ssid \o "' is " \o w.state
                             \o " with signal strength " \o w.signal \o ".")
             ELSE Return(20, "Could not retrieve complete Wi-Fi information.")
     : out \in Netsh}

\* lines 406-418
mute_answer ==
    {IF ok THEN Return(22, "Audio muted.")
     ELSE Return(22, "Sorry, I couldn't mute the audio.") : ok \in Mutes}
unmute_answer ==
    {IF ok THEN Return(23, "Audio unmuted.")
     ELSE Return(23, "Sorry, I couldn't unmute the audio.") : ok \in Mutes}

\* lines 204-420: the chain of if statements, the first that holds answers
respond(t) ==
    IF is_time(t) THEN {Return(1, Strftime(c)) : c \in Clocks}
    ELSE IF is_battery(t) THEN battery_answer
    ELSE IF is_health(t) THEN health_answer
    ELSE IF is_fix(t) THEN fix_answer(t)
    ELSE IF is_cleanup(t) THEN cleanup_answer
    ELSE IF is_fact(t) THEN fact_answer
    ELSE IF is_summary(t) THEN summary_answer
    ELSE IF is_open(t) THEN open_answer(t)
    ELSE IF is_clipboard(t) THEN clipboard_answer
    ELSE IF is_exit(t) THEN exit_answer
    ELSE IF is_play_guess(t) THEN play_guess_answer
    ELSE IF is_guess(t) THEN guess_answer(t)
    ELSE IF is_play_rps(t) THEN play_rps_answer
    ELSE IF is_move(t) THEN move_answer(t)
    ELSE IF is_name(t) THEN name_answer(t)
    ELSE IF is_color(t) THEN color_answer(t)
    ELSE IF is_birthday(t) THEN birthday_answer(t)
    ELSE IF is_recall(t) THEN recall_answer
    ELSE IF is_recent(t) THEN recent_answer
    ELSE IF is_wifi(t) THEN wifi_answer
    ELSE IF is_hello(t) THEN {Return(21, "Hello.")}
    ELSE IF is_mute(t) THEN mute_answer
    ELSE IF is_unmute(t) THEN unmute_answer
    ELSE {Return(24, Fallback)}

(***************************************************************************)
(* DesktopAssistant: the handlers.                                         *)
(***************************************************************************)
\* show_bubble(message), lines 422-423: the default interval of line 76
show_bubble(s, message) == show_animated_text(s, message, RevealInterval)

\* the state respond(t) leaves when it ends as r: the loop was blocked for
\* r.blocked ms; the exit branch (lines 269-271) talks, shows the goodbye
\* message and schedules QApplication.quit
answered(s, t, r) ==
    LET s1 == [PassTime(s, r.blocked) EXCEPT
                  !.text = t,
                  !.rule = r.rule,
                  !.response = IF r.ret = None THEN "" ELSE r.ret[1],
                  !.outcome = IF r.ret = None THEN "raised" ELSE "returned",
                  !.game_active = r.conv.game_active,
                  !.secret_number = r.conv.secret_number,
                  !.rps_active = r.conv.rps_active,
                  !.user_profile = r.conv.user_profile]
    IN IF r.exit
       THEN [show_bubble(talk(s1), Goodbye) EXCEPT
                !.quit_shots = singleShot(@, QuitDelay),
                !.since_exit = Some(0)]
       ELSE s1

\* handle_input(), lines 193-201, with typed in the input line.  An exception
\* that leaves respond leaves handle_input at line 198: nothing after it
\* runs, and PyQt either reports it and carries on or aborts the process.
handle_input(s, typed) ==
    LET s0 == [s EXCEPT !.input_line = typed]
        user_text == Lower(Strip(typed))
    IN IF user_text = "" THEN {s0}
       ELSE UNION {
            LET s1 == answered(s0, user_text, r) IN
            IF r.ret = None
            THEN {[s1 EXCEPT !.running = alive] : alive \in BOOLEAN}
            ELSE {[show_bubble(talk(s1), r.ret[1]) EXCEPT !.input_line = ""]}
            : r \in respond(user_text)}

\* what bounds a run: the pending callbacks and the show_animated_text calls
Bounded ==
    /\ Len(idle_shots) < MaxShots
    /\ Len(quit_shots) < MaxShots
    /\ shown.calls < MaxShows

\* a caller runs respond(t)
Respond(t) ==
    /\ running
    /\ \E r \in respond(t) :
          /\ r.exit => Bounded
          /\ now + r.blocked <= Horizon
          /\ Set(answered(State, t, r))

\* the user types typed and presses Enter
HandleInput(typed) ==
    /\ running
    /\ Bounded
    /\ \E s \in handle_input(State, typed) :
          /\ s.now <= Horizon
          /\ Set(s)

\* a slip: the summary ends the guess game
hourly_summary_ends_game(s) ==
    UNION {
        IF batt.kind = "raise" \/ u.kind = "raise"
        THEN {[s EXCEPT !.running = alive] : alive \in BOOLEAN}
        ELSE {[show_bubble(talk(PassTime(s, CpuSampleMs)), summary_text(c, batt, u, i))
                  EXCEPT !.game_active = FALSE]}
        : c \in Clocks, batt \in Batteries, u \in Samples, i \in 1..Len(fun_facts)}
\* hourly_summary(), lines 171-189: the sampling blocks for half a second; an
\* exception of psutil leaves the callback before talk() and show_bubble(),
\* and PyQt either reports it and carries on or aborts the process
hourly_summary(s) ==
    UNION {
        IF batt.kind = "raise" \/ u.kind = "raise"
        THEN {[s EXCEPT !.running = alive] : alive \in BOOLEAN}
        ELSE {show_bubble(talk(PassTime(s, CpuSampleMs)), summary_text(c, batt, u, i))}
        : c \in Clocks, batt \in Batteries, u \in Samples, i \in 1..Len(fun_facts)}

\* summary_timer times out: the timer starts over and hourly_summary() runs
HourlySummary ==
    /\ running
    /\ summary_timer = 0
    /\ Bounded
    /\ \E s \in hourly_summary([State EXCEPT !.summary_timer = SummaryInterval]) :
          Set(s)

\* a pending singleShot(2000, QApplication.quit) is due and runs: the event
\* loop ends, app.exec_() returns 0 and line 480 exits with it
Quit ==
    /\ running
    /\ \E i \in Due(quit_shots) :
          Set([State EXCEPT !.running = FALSE, !.quit_shots = Fired(@, i),
                            !.exit_status = Some(0)])

(***************************************************************************)
(* __main__, lines 467-480: the three images are looked for in order, and  *)
(* the first that is missing ends the process.                             *)
(***************************************************************************)
idle_img == "C:/Users/Dell/Documents/deskteto/tet00.png"
mouth_open_img == "C:/Users/Dell/Documents/deskteto/tet01.png"
blink_img == "C:/Users/Dell/Documents/deskteto/tet02.png"
Images == <<idle_img, mouth_open_img, blink_img>>

\* one pass of the loop, lines 472-475
check_image(s) ==
    LET img_path == Images[s.checked + 1] IN
    IF img_path \in s.missing
    THEN [s EXCEPT !.stdout = Append(@, "Missing image: " \o img_path),
                   !.exit_status = Some(1)]
    ELSE [s EXCEPT !.checked = @ + 1]

CheckImage ==
    /\ exit_status = None
    /\ ~window
    /\ checked < Len(Images)
    /\ Set(check_image(State))

\* lines 477-479 and the call of app.exec_(): the objects are constructed,
\* the window is shown and the event loop starts
CreateWindow ==
    /\ exit_status = None
    /\ ~window
    /\ checked = Len(Images)
    /\ Set([State EXCEPT !.window = TRUE, !.running = TRUE])

(***************************************************************************)
(* The state after construction (__init__ of the three classes, init_ui).  *)
(***************************************************************************)
Constructed ==
    /\ current = "idle"
    /\ idle_shots = <<>>
    /\ blink_timer = BlinkInterval
    /\ full_text = ""
    /\ displayed_text = ""
    /\ char_index = 0
    /\ visible = FALSE
    /\ timer = [active |-> FALSE, left |-> 0, interval |-> 0]
    /\ hide_shots = <<>>
    /\ input_line = ""
    /\ game_active = FALSE
    /\ secret_number = None
    /\ rps_active = FALSE
    /\ user_profile = [name |-> None, favorite_color |-> None, birthday |-> None]
    /\ summary_timer = SummaryInterval
    /\ quit_shots = <<>>
    /\ text = ""
    /\ rule = 0
    /\ response = ""
    /\ outcome = "none"
    /\ now = 0
    /\ last_call = [kind |-> "none", age |-> 0, in_talk |-> FALSE]
    /\ since_talk = None
    /\ shown = [calls |-> 0, hides |-> 0, ticks |-> 0, done |-> None]
    /\ since_exit = None

\* the images were found, the window is shown and app.exec_() runs the loop
Init ==
    /\ Constructed
    /\ running = TRUE
    /\ missing = {}
    /\ checked = Len(Images)
    /\ stdout = <<>>
    /\ exit_status = None
    /\ window = TRUE

(***************************************************************************)
(* The avatar alone: any interleaving of talk() and blink_once() calls     *)
(* with the recurring blink and the return-to-idle callbacks.              *)
(***************************************************************************)
\* calls are interleaved with the timers AvatarSlices times in a blink
AvatarSlices == 3
AvatarStep == BlinkMs \div AvatarSlices

NextAvatar ==
    \/ Talk
    \/ BlinkOnce
    \/ BlinkTimeout
    \/ ReturnToIdle
    \/ Advance(AvatarStep)

SpecAvatar == Init /\ [][NextAvatar]_vars

(***************************************************************************)
(* The bubble alone: any sequence of show_animated_text calls with the     *)
(* reveal ticks and the hide callbacks.                                    *)
(***************************************************************************)
\* the longest message shown
MaxLen == 2
Messages == {SubSeq("Hi there", 1, n) : n \in 0..MaxLen}
\* calls are interleaved with the timers BubbleSlices times in a hide delay
BubbleSlices == 2
BubbleStep == HideDelay \div BubbleSlices

NextBubble ==
    \/ \E m \in Messages : ShowAnimatedText(m, RevealInterval)
    \/ NextCharacter
    \/ Hide
    \/ BlinkTimeout
    \/ ReturnToIdle
    \/ Advance(BubbleStep)

SpecBubble == Init /\ [][NextBubble]_vars

\* A TextBubble by itself, with no end of time: only its own timers run (the
\* reveal timer and the hide callbacks), and the clock of the history stops
\* at Horizon while they go on.
BubbleCountDowns ==
    {hide_shots[i] : i \in 1..Len(hide_shots)}
    \cup (IF timer.active THEN {timer.left} ELSE {})
BubbleWait(step) ==
    LET d == IF BubbleCountDowns = {} THEN step
             ELSE Min(step, CHOOSE m \in BubbleCountDowns :
                                \A c \in BubbleCountDowns : m <= c)
    IN /\ d > 0
       /\ Set([State EXCEPT !.hide_shots = Elapse(@, d),
                            !.timer = ElapseTimer(@, d),
                            !.now = Min(@ + d, Horizon),
                            !.shown = [@ EXCEPT !.done = ElapseAge(@, d, HideDelay)]])

\* what the event loop does by itself: it runs the callback of a timer that
\* is due, or waits when none is.  The caller calls within the horizon, and
\* nothing makes it call.
EventLoop ==
    \/ NextCharacter
    \/ Hide
    \/ BubbleWait(BubbleStep)

NextBubbleFair ==
    \/ now < Horizon /\ \E m \in Messages : ShowAnimatedText(m, RevealInterval)
    \/ EventLoop

\* the event loop never stops; while a timer is due no time passes, and each
\* callback that runs leaves one due timer less
FairBubble == WF_vars(EventLoop)

SpecBubbleFair == Init /\ [][NextBubbleFair]_vars /\ FairBubble


(***************************************************************************)
(* The two games: any sequence of respond() calls on the inputs of the     *)
(* games and one input that no rule knows.                                 *)
(***************************************************************************)
\* the guesses typed go from -1 to GuessMax
GuessMax == 11
GuessText(n) == "guess " \o ToString(n)
GameTexts ==
    {"play guess number", "guess", "guess abc", "guess 1_0", "guesswork +7",
     "play rps", "rock paper scissors", "rock", "paper", "scissors",
     "guess number", "guess 5.0", "good morning"}
    \cup {GuessText(n) : n \in (0 - 1)..GuessMax}

NextGames == \E t \in GameTexts : Respond(t)

SpecGames == Init /\ [][NextGames]_vars

(***************************************************************************)
(* The dispatch: one respond() call on any input, in every conversation    *)
(* state that the inputs of SetupTexts build.                              *)
(***************************************************************************)
SetupTexts ==
    {"play guess number", "guess 5", "play rps", "rock", "my name is alice"}
Texts ==
    {"what time is it", "update", "battery", "battery problem", "fix my battery",
     "battery time", "internet", "internet crash",
     "battery health", "cpu health", "memory problem", "my pc is slow",
     "fix internet", "slow internet", "problem", "disk full", "clean",
     "open cleanup", "run cleanup fact", "fun fact", "summary",
     "fact summary", "open chrome", "open edge", "open notepad", "open summary",
     "read clipboard", "open clipboard", "exit", "quit", "close", "bye",
     "bye bye", "play guess number", "guess", "guess abc", "guess 3", "guess 5",
     "guess 7", "guess number rock paper scissors", "rock paper scissors",
     "play rps", "rock", "paper", "scissors", "my name is alice",
     "my name is rock", "my favorite color is red", "my birthday is may 5",
     "my name is my birthday is", "what do you know about me",
     "what do you know about me recent files", "recent files", "show recent",
     "wifi info", "network info", "hi", "hello", "hi wifi status",
     "mute audio", "mute sound", "unmute audio", "unmute sound", "mute",
     "good morning"}

NextDispatch ==
    \E t \in SetupTexts \cup Texts :
        /\ text \in SetupTexts \cup {""}
        /\ Respond(t)

SpecDispatch == Init /\ [][NextDispatch]_vars


(***************************************************************************)
(* The profile: any sequence of respond() calls on inputs that store a     *)
(* profile field, recall the profile or do neither.  The inputs are as     *)
(* handle_input passes them: stripped and in lower case.                   *)
(***************************************************************************)
ProfileTexts ==
    {"my name is alice", "my name is bob smith", "my favorite color is red",
     "my favorite color is dark blue", "my birthday is may 5",
     "well my birthday is june 1", "my birthday is",
     "what do you know about me", "good morning"}

NextProfile == \E t \in ProfileTexts : Respond(t)

SpecProfile == Init /\ [][NextProfile]_vars

(***************************************************************************)
(* The application: the user submits inputs while the event loop runs the  *)
(* timers of the avatar, of the bubble and of the exit.                    *)
(***************************************************************************)
\* what the user types
Typed == {"", "  ", "Bye", " exit", "quit", "close", "hi", "Battery"}
\* inputs are interleaved with the timers every AppStep ms
AppStep == 2500

Next ==
    \/ \E typed \in Typed : HandleInput(typed)
    \/ NextCharacter
    \/ Hide
    \/ BlinkTimeout
    \/ ReturnToIdle
    \/ Quit
    \/ Advance(AppStep)

Spec == Init /\ [][Next]_vars

(***************************************************************************)
(* The first hour: nobody types until the last blink period before the     *)
(* hourly summary, a guess game is started then, the summary is shown and  *)
(* hidden, and respond() is called on any input that starts no guess game, *)
(* after "play rps" too.  Time is followed until the bubble of the summary *)
(* is hidden, and for no more than twice Horizon ms after the summary.     *)
(***************************************************************************)
FrameSetup == {"play guess number"}
FinalTexts == {t \in Texts : ~is_play_guess(t)}

\* the event loop waits for the next timer
Sleep ==
    /\ running
    /\ MinLeft > 0
    /\ shown.hides = 0
    /\ now + MinLeft <= SummaryInterval + 2 * Horizon
    /\ Set(PassTime(State, MinLeft))

\* a caller runs respond(t), at any time
Ask(t) ==
    /\ running
    /\ \E r \in respond(t) :
          /\ r.exit => Bounded
          /\ Set(answered(State, t, r))

NextHour ==
    \/ \E t \in FrameSetup :
          /\ summary_timer <= BlinkInterval
          /\ text \in FrameSetup \cup {""}
          /\ Ask(t)
    \/ \E t \in FinalTexts :
          /\ shown.hides > 0
          /\ text \in FrameSetup \cup {"", "play rps"}
          /\ Ask(t)
    \/ BlinkTimeout
    \/ ReturnToIdle
    \/ NextCharacter
    \/ Hide
    \/ HourlySummary
    \/ Sleep

SpecHour == Init /\ [][NextHour]_vars

(***************************************************************************)
(* The process from its start: any of the three images may be missing.     *)
(* The fields of the objects hold, before the objects exist, the values    *)
(* their construction gives them; no handler runs before the loop does.    *)
(***************************************************************************)
InitMain ==
    /\ Constructed
    /\ running = FALSE
    /\ missing \in SUBSET {Images[i] : i \in 1..Len(Images)}
    /\ checked = 0
    /\ stdout = <<>>
    /\ exit_status = None
    /\ window = FALSE

NextMain ==
    \/ CheckImage
    \/ CreateWindow
    \/ Next

SpecMain == InitMain /\ [][NextMain]_vars


(***************************************************************************)
(* The properties.                                                         *)
(***************************************************************************)

\* C1: when blink_once() is called less than 700 ms after talk(), the sprite
\* is Blinking from that call until 300 ms after it and Idle after that: the
\* return to idle follows the most recent call's timeout, not the talk's.
C1_BlinkResetsDeadline ==
    (last_call.kind = "blink_once" /\ last_call.in_talk) =>
        /\ last_call.age < BlinkMs => current = "blink"
        /\ last_call.age > BlinkMs => current = "idle"

\* C2: after a call of talk(), whatever was called before, the sprite is
\* Talking at once and is not Idle until 700 ms after that call.
C2_TalkHoldsFor700 ==
    (last_call.kind = "talk" /\ last_call.age < TalkMs) => current = "mouth_open"

\* C3: a new show_animated_text call cancels what the earlier call left
\* pending: at most one hide callback is pending at any time and a shown
\* message is hidden at most once.
C3_OneHidePending == Len(hide_shots) <= 1 /\ shown.hides <= 1

\* C4: after show_animated_text(m) the bubble is visible until m is fully
\* revealed and for 6000 ms after that: it is hidden neither during the
\* reveal nor earlier than 6000 ms after the reveal completed.
C4_VisibleUntilDelay ==
    (shown.calls > 0 /\ ~visible) => (shown.done # None /\ shown.done[1] >= HideDelay)

\* C5: after an exit word is submitted the application runs for 2000 ms more
\* and ends then, and while it runs the bubble shows the goodbye message.
C5_GoodbyeShown ==
    (text \in exit_words /\ outcome = "returned" /\ since_exit # None) =>
        /\ since_exit[1] < QuitDelay => (running /\ full_text = Goodbye)
        /\ since_exit[1] > QuitDelay => ~running

\* C6: the guess game and the rock-paper-scissors game are never both active.
C6_OneGameActive == ~(game_active /\ rps_active)

\* C7: in a started guess game "guess N" answers too low for N below the
\* secret and too high for N above it, the game staying active, and answers
\* correct for the secret, the game ending; with no game active "guess N"
\* gets the fallback response.
C7_Answer(n) ==
    IF game_active
    THEN /\ n < secret_number[1] => (response' = "Too low! Try again." /\ game_active')
         /\ n > secret_number[1] => (response' = "Too high! Try again." /\ game_active')
         /\ n = secret_number[1] => (response' = "Correct! You guessed it!" /\ ~game_active')
         /\ secret_number' = secret_number
    ELSE response' = Fallback /\ ~game_active'
C7_GuessGame ==
    [][\A n \in (0 - 1)..GuessMax : text' = GuessText(n) => C7_Answer(n)]_vars
\* the secret 5 was guessed, and a further "guess 5" got the fallback response
C7_Witness ==
    /\ text = GuessText(5) /\ response = Fallback
    /\ ~game_active /\ secret_number = Some(5)

\* C8: with the rock-paper-scissors game active a move ends the game and is
\* answered with the user's move, the bot's move and the verdict of the
\* standard relation.
Beats == {<<"rock", "scissors">>, <<"paper", "rock">>, <<"scissors", "paper">>}
Verdict(user, bot) ==
    IF user = bot THEN "It's a tie!"
    ELSE IF <<user, bot>> \in Beats THEN "You win!"
    ELSE "I win!"
C8_RpsRound ==
    [][(rps_active /\ text' \in {"rock", "paper", "scissors"}) =>
          /\ ~rps_active'
          /\ \E bot \in {"rock", "paper", "scissors"} :
                response' = "You chose " \o text' \o ", I chose " \o bot \o ". "
                            \o Verdict(text', bot)]_vars
\* the user won a round with rock
C8_Witness ==
    /\ text = "rock" /\ ~rps_active
    /\ response = "You chose rock, I chose scissors. You win!"

\* C9: respond answers with the first rule of the documented table whose
\* predicate holds, and with that rule's response.
DocRules ==
    <<[mode |-> "contains", words |-> {"time", "date"}, needs |-> "none"],
      [mode |-> "contains", words |-> {"battery"}, needs |-> "none"],
      [mode |-> "contains", words |-> {"health", "cpu", "memory"}, needs |-> "none"],
      [mode |-> "contains", words |-> {"fix", "slow", "problem", "crash", "disk"}, needs |-> "none"],
      [mode |-> "contains", words |-> {"run cleanup", "open cleanup", "clean"}, needs |-> "none"],
      [mode |-> "contains", words |-> {"fun fact", "fact"}, needs |-> "none"],
      [mode |-> "contains", words |-> {"summary", "status report", "how am i doing"}, needs |-> "none"],
      [mode |-> "starts", words |-> {"open "}, needs |-> "none"],
      [mode |-> "contains", words |-> {"clipboard", "read clipboard"}, needs |-> "none"],
      [mode |-> "is", words |-> {"exit", "quit", "close", "bye"}, needs |-> "none"],
      [mode |-> "contains", words |-> {"play guess", "guess number"}, needs |-> "none"],
      [mode |-> "starts", words |-> {"guess"}, needs |-> "guess"],
      [mode |-> "contains", words |-> {"rock paper scissors", "play rps"}, needs |-> "none"],
      [mode |-> "is", words |-> {"rock", "paper", "scissors"}, needs |-> "rps"],
      [mode |-> "starts", words |-> {"my name is "}, needs |-> "none"],
      [mode |-> "starts", words |-> {"my favorite color is "}, needs |-> "none"],
      [mode |-> "contains", words |-> {"my birthday is"}, needs |-> "none"],
      [mode |-> "contains", words |-> {"what do you know about me"}, needs |-> "none"],
      [mode |-> "contains", words |-> {"recent files", "show recent"}, needs |-> "none"],
      [mode |-> "contains", words |-> {"wifi info", "wifi status", "network info"}, needs |-> "none"],
      [mode |-> "is", words |-> {"hi", "hello"}, needs |-> "none"],
      [mode |-> "is", words |-> {"mute audio", "mute sound"}, needs |-> "none"],
      [mode |-> "is", words |-> {"unmute audio", "unmute sound"}, needs |-> "none"]>>
DocHolds(k, t, guessing, rps) ==
    LET d == DocRules[k] IN
    /\ d.needs = "guess" => guessing
    /\ d.needs = "rps" => rps
    /\ \E w \in d.words :
          CASE d.mode = "contains" -> Contains(t, w)
            [] d.mode = "starts" -> StartsWith(t, w)
            [] d.mode = "is" -> t = w
\* the number of the first documented rule that holds, the fallback's if none
DocFirst(t, guessing, rps) ==
    LET hits == {k \in 1..Len(DocRules) : DocHolds(k, t, guessing, rps)} IN
    IF hits = {} THEN Len(DocRules) + 1
    ELSE CHOOSE k \in hits : \A j \in hits : k <= j
\* how the response of each documented rule begins
DocAnswers ==
    <<{"It's "}, {"Battery is at ", "Battery info not available."},
      {"CPU usage is "},
      {"Try restarting your PC", "Check your router", "Try calibrating",
       "Update your drivers", "You can free up space", "Try restarting your computer"},
      {"Launching Disk Cleanup...", "Failed to launch Disk Cleanup: "},
      {"Honey", "Octopuses", "Bananas"},
      {"It's "},
      {"Launching ", "Couldn't launch ", "I don't know how to open "},
      {"Clipboard says:", "Clipboard is empty"},
      {""},
      {"I'm thinking of a number"},
      {"Too low!", "Too high!", "Correct!", "Please type like"},
      {"Let's play Rock, Paper, Scissors!"},
      {"You chose "},
      {"Nice to meet you, "},
      {"I'll remember that your favorite color is "},
      {"Got it! Your birthday is on "},
      {"Your name is "},
      {"I couldn't find the Documents folder.", "No recent files found.",
       "Here are your 3 most recent files"},
      {"Wi-Fi '", "Could not retrieve complete Wi-Fi", "Sorry, I couldn't get the Wi-Fi"},
      {"Hello."},
      {"Audio muted.", "Sorry, I couldn't mute"},
      {"Audio unmuted.", "Sorry, I couldn't unmute"},
      {"Sorry, I don't understand."}>>
\* the exit rule returns the empty string (its message goes to the bubble)
DocAnswered(k, r) ==
    IF DocAnswers[k] = {""} THEN r = ""
    ELSE \E b \in DocAnswers[k] : StartsWith(r, b)
C9_FirstMatchWins ==
    [][/\ rule' = DocFirst(text', game_active, rps_active)
       /\ outcome' = "returned" => DocAnswered(rule', response')]_vars
\* "battery problem" was answered by the battery rule
C9_Witness ==
    /\ text = "battery problem" /\ rule = 2 /\ outcome = "returned"
    /\ response = "Battery info not available."

\* C10: whatever an OS collaborator does, respond returns a response string:
\* no exception leaves it.
C10_NoRaise == outcome # "raised"

\* C11: "what do you know about me" renders every profile field that was
\* stored with the value stored last, and "unknown" for exactly the fields
\* that were never stored.
Rendered(v) == IF v = None THEN "unknown" ELSE v[1]
C11_ProfileRoundTrip ==
    (rule = 18 /\ outcome = "returned") =>
        response = "Your name is " \o Rendered(user_profile.name)
                   \o ", your favorite color is " \o Rendered(user_profile.favorite_color)
                   \o ", and your birthday is " \o Rendered(user_profile.birthday) \o "."

\* C12: while the guess game is active, an input that starts with "guess" and
\* has no second token, or a second token that is not an integer, returns the
\* usage hint and leaves the game active with the same secret number.
UsageHint == "Please type like: guess 5"
Malformed(t) ==
    /\ StartsWith(t, "guess")
    /\ LET words == Split(t) IN Len(words) < 2 \/ int(words[2]) = None
HintOnly ==
    /\ response' = UsageHint
    /\ game_active' /\ secret_number' = secret_number
    /\ rps_active' = rps_active /\ user_profile' = user_profile
C12_MalformedGuess ==
    [][(game_active /\ Malformed(text')) => HintOnly]_vars
\* C12 as amended: the same, for the inputs that none of the rules before the
\* guess rule (1 to 11 of the table) matches.
EarlierRule(t) ==
    \E k \in 1..11 : DocHolds(k, t, game_active, rps_active)
C12_MalformedGuessReached ==
    [][(game_active /\ Malformed(text') /\ ~EarlierRule(text')) => HintOnly]_vars
\* with a game started, "guess abc" got the usage hint
C12_Witness ==
    /\ text = "guess abc" /\ rule = 12 /\ response = UsageHint
    /\ game_active /\ secret_number # None

\* C13: the window is created only when no image is missing; when some are,
\* the process exits with a non-zero status, no window created, after
\* printing one diagnostic line for each missing image.
Diagnostics(p) == {i \in 1..Len(stdout) : stdout[i] = "Missing image: " \o p}
C13_Startup ==
    /\ window => missing = {}
    /\ (missing # {} /\ exit_status # None) =>
          /\ exit_status[1] # 0
          /\ ~window
          /\ \A p \in missing : Cardinality(Diagnostics(p)) = 1
          /\ Len(stdout) = Cardinality(missing)

\* C14: the revealed length is between 0 and the length of the message, the
\* text displayed is the prefix of the message of that length, and after k
\* time-outs of the reveal timer since the message was shown the revealed
\* length is k, up to the length n of the message: every tick reveals one
\* character, none is taken back, and n ticks reveal the whole message.
C14_RevealInvariant ==
    /\ char_index \in 0..Len(full_text)
    /\ displayed_text = SubSeq(full_text, 1, char_index)
    /\ char_index = Min(shown.ticks, Len(full_text))
\* the second message shown, "Hi", is revealed by its second tick
C14_Witness ==
    /\ shown.calls = 2 /\ full_text = "Hi" /\ shown.ticks = 2
    /\ char_index = 2 /\ displayed_text = "Hi" /\ timer.active

\* C15: whenever the sprite is Blinking or Talking, the return-to-idle
\* callback of the call that set it is pending and due when the timeout of
\* that state (300 ms, 700 ms) has passed since the call: the sprite is not
\* in a transient state for longer than that state's timeout.
Timeout(sprite) == IF sprite = "blink" THEN BlinkMs ELSE TalkMs
C15_ReturnsToIdle ==
    current # "idle" =>
        /\ last_call.kind = (IF current = "blink" THEN "blink_once" ELSE "talk")
        /\ last_call.age <= Timeout(current)
        /\ \E i \in 1..Len(idle_shots) :
              idle_shots[i] = Timeout(current) - last_call.age
\* the sprite has been Blinking for 300 ms, during a talk period, and its
\* return to idle is due
C15_Witness ==
    /\ current = "blink" /\ last_call.in_talk /\ last_call.age = BlinkMs
    /\ \E i \in Due(idle_shots) : TRUE

\* C16: after the last show_animated_text call the message gets fully
\* revealed, the reveal timer stops, and the bubble gets hidden and stays
\* hidden, no hide callback left pending.
Settled ==
    /\ char_index = Len(full_text) /\ displayed_text = full_text
    /\ ~timer.active
    /\ ~visible /\ hide_shots = <<>>
C16_AutoHide == <>[]Settled
\* two messages were shown, the second is "Hi", and the bubble has settled
C16_Witness ==
    /\ shown.calls = 2 /\ full_text = "Hi" /\ shown.hides > 0 /\ Settled

\* C17: a step that changes the conversation state (game_active,
\* secret_number, rps_active, user_profile) is a respond() call answered by
\* one of the rules 11 to 17, and it changes nothing else: no timer callback
\* (blink, return to idle, reveal tick, hide, hourly summary) changes it.
C17_OnlyRespond ==
    [][convVars' # convVars =>
          /\ rule' \in 11..17 /\ outcome' = "returned"
          /\ UNCHANGED <<avatarVars, bubbleVars, appVars, mainVars>>]_vars
\* a guess game was started before the hourly summary and is active after
\* the summary was shown and hidden, and a name was stored then
C17_Witness ==
    /\ game_active /\ secret_number = Some(5)
    /\ now > SummaryInterval /\ shown.hides > 0 /\ ~visible
    /\ StartsWith(full_text, "It's ")
    /\ text = "my name is alice" /\ rule = 15
    /\ user_profile.name = Some("Alice")



(***************************************************************************)
(* C18: whenever the guess game is active the secret number is set and is  *)
(* an integer of 1..10, in every state that a sequence of inputs reaches,  *)
(* and the secret number changes only in a respond() call answered by the  *)
(* rule that starts the game, on an input that contains "play guess" or    *)
(* "guess number".                                                         *)
(***************************************************************************)
SecretInRange ==
    game_active =>
        /\ secret_number # None
        /\ secret_number[1] \in SecretMin..SecretMax
C18_SecretInRange ==
    /\ []SecretInRange
    /\ [][secret_number' # secret_number =>
              /\ rule' = 11 /\ outcome' = "returned"
              /\ is_play_guess(text')
              /\ game_active']_vars
\* "guess number" started a game that drew the largest secret
C18_Witness ==
    /\ game_active /\ secret_number = Some(SecretMax)
    /\ text = "guess number" /\ rule = 11 /\ outcome = "returned"

(***************************************************************************)
(* C19: respond() never returns the "battery" tip of fix_tips, for any     *)
(* input in any state, because a text that contains "battery" is answered  *)
(* by the battery rule, which comes before the fix-tip rule; and the       *)
(* "internet" tip is returned only for inputs that contain one of "fix",   *)
(* "slow", "problem", "crash", "disk" and do not contain "slow".           *)
(***************************************************************************)
Tip(key) == fix_tips[CHOOSE i \in 1..Len(fix_tips) : fix_tips[i].key = key].tip
NoBatteryTip == response # Tip("battery")
InternetTipOnly ==
    response = Tip("internet") =>
        /\ \E kw \in {"fix", "slow", "problem", "crash", "disk"} : Contains(text, kw)
        /\ ~Contains(text, "slow")
C19_BatteryRuleAnswers ==
    /\ NoBatteryTip
    /\ Contains(text, "battery") => rule = 2
    /\ InternetTipOnly
\* C19 as amended: a text that contains "battery" is answered by the battery
\* rule or, when it also contains "time" or "date", by the time rule; both
\* come before the fix-tip rule.
C19_BatteryTipUnreachable ==
    /\ NoBatteryTip
    /\ Contains(text, "battery") =>
          rule = (IF Contains(text, "time") \/ Contains(text, "date") THEN 1 ELSE 2)
    /\ InternetTipOnly
\* "fix my battery" contains a word of the fix-tip rule and the key of the
\* battery tip, and was answered with the battery's charge
C19_Witness ==
    /\ text = "fix my battery" /\ rule = 2 /\ outcome = "returned"
    /\ StartsWith(response, "Battery is at ")

============================================================================
